---- MODULE Spec2Model ----
(***************************************************************************)
(* Model of the gigaspoon validators (src/gigaspoon/validators.py) and of  *)
(* the error classes they raise (src/spudbucket/errors.py).                *)
(*                                                                         *)
(* Python values are tagged records, validators are records that carry     *)
(* their constructor arguments, and every validate operator returns what   *)
(* the call did: whether it returned or raised, the returned value, the    *)
(* raised error, the argument object as the call left it (containers are   *)
(* mutated in place), the validator object as the call left it, and the    *)
(* list of validate calls made on the way.                                 *)
(***************************************************************************)
EXTENDS Integers, Sequences, FiniteSets, TLC

(***************************************************************************)
(* Bounds of the model.                                                    *)
(***************************************************************************)
MaxChain == 2
MaxLen == 2
MaxBound == 2
MaxRuns == 2

(***************************************************************************)
(* Python values.  t is type(value).__name__; s is the text of a str, the  *)
(* repr of a bool or the name of a bare object(); keys and items are the   *)
(* keys and values of a dict in insertion order; a list has items only.    *)
(***************************************************************************)
PyValue(t, s, keys, items) == [t |-> t, s |-> s, keys |-> keys, items |-> items]
PyNone == PyValue("NoneType", "None", <<>>, <<>>)
PyStr(s) == PyValue("str", s, <<>>, <<>>)
PyBool(b) == PyValue("bool", IF b THEN "True" ELSE "False", <<>>, <<>>)
PyObject(name) == PyValue("object", name, <<>>, <<>>)
PyList(items) == PyValue("list", "", <<>>, items)
PyDict(keys, items) == PyValue("dict", "", keys, items)

\* len(value)
PyLen(value) == IF value.t = "str" THEN Len(value.s) ELSE Len(value.items)

\* bool(value)
Truthy(value) ==
    CASE value.t = "NoneType" -> FALSE
      [] value.t = "bool" -> value.s = "True"
      [] value.t = "str" -> value.s # ""
      [] value.t = "object" -> TRUE
      [] OTHER -> Len(value.items) > 0

\* value[dict_key] of a dict: the position of the key, 0 when it is absent
KeyIndex(value, k) ==
    IF \E i \in 1..Len(value.keys) : value.keys[i] = k
    THEN CHOOSE i \in 1..Len(value.keys) : value.keys[i] = k
    ELSE 0

\* value[index] = output, value[dict_key] = output
SetItem(value, i, output) == [value EXCEPT !.items[i] = output]

(***************************************************************************)
(* The error classes.  An exception that is not a FormError is a record of *)
(* the same shape whose kind is its class name.                            *)
(***************************************************************************)
NoValidator == [name |-> ""]
NoError ==
    [kind |-> "", key |-> "", value |-> PyNone, validator |-> NoValidator,
     message |-> "None", exception |-> "None"]

FormErrorKinds == {"FormError", "FormKeyError", "ValidationError", "InvalidSessionError"}

ValidationError(key, value, validator, message, exception) ==
    [kind |-> "ValidationError", key |-> key, value |-> value,
     validator |-> validator, message |-> message, exception |-> exception]

OtherException(kind, message) ==
    [NoError EXCEPT !.kind = kind, !.message = message]

\* e.FormKeyError(*args): __init__(self, key, form) takes exactly two
FormKeyError(args) ==
    IF Len(args) = 2
    THEN [NoError EXCEPT !.kind = "FormKeyError", !.key = args[1]]
    ELSE OtherException("TypeError",
            "FormKeyError.__init__() missing 1 required positional argument: 'form'")

(***************************************************************************)
(* What a call did.                                                        *)
(***************************************************************************)
Return(self, out, val, calls) ==
    [st |-> "return", out |-> out, err |-> NoError, val |-> val,
     self |-> self, calls |-> calls]
Raise(self, err, val, calls) ==
    [st |-> "raise", out |-> PyNone, err |-> err, val |-> val,
     self |-> self, calls |-> calls]

\* Validator.raise_error
raise_error(self, key, value, message, exception) ==
    Raise(self, ValidationError(key, value, self, message, exception), value, <<>>)

(***************************************************************************)
(* Validator objects: name is the class attribute, the other fields are    *)
(* the attributes __init__ sets.  An absent bound (None) is <<>>, a bound  *)
(* n is <<n>>.  A Python list of validators is a PyValidatorList.          *)
(***************************************************************************)
Exists == [name |-> "exists"]
Bool == [name |-> "bool"]
Length(min, max) == [name |-> "length", _min |-> min, _max |-> max]
Select(options) == [name |-> "select", _options |-> {PyStr(o) : o \in options}]
\* address_type defaults to ["ipv4"]
DefaultAddressType == <<"ipv4">>
IPAddress(address_type) == [name |-> "ipaddress", _type |-> address_type]
LambdaMap(lambda) == [name |-> "lambdamap", _lambda |-> lambda]
LambdaFilter(lambda, matches) ==
    [name |-> "lambdafilter", _lambda |-> lambda, _matches |-> matches]
\* an absent domain (None) is <<>>
Email(domain) == [name |-> "email", _domain |-> domain]
\* self.pattern is the compiled pattern, here its text
Regex(pattern) == [name |-> "regex", pattern |-> pattern]
\* Date.__init__ and Time.__init__: fmt is <<>> for None; without a format
\* and without use_isoformat the constructor raises ValueError
DateOrTime(name, keep, fmt, use_isoformat) ==
    IF fmt # <<>> /\ fmt # <<"">>
    THEN [name |-> name, keep |-> keep, format |-> fmt, use_isoformat |-> FALSE]
    ELSE IF use_isoformat
    THEN [name |-> name, keep |-> keep, format |-> <<>>, use_isoformat |-> TRUE]
    ELSE [name |-> "ValueError"]
Date(fmt, keep_date_object, use_isoformat) ==
    DateOrTime("date", keep_date_object, fmt, use_isoformat)
Time(fmt, keep_time_object, use_isoformat) ==
    DateOrTime("time", keep_time_object, fmt, use_isoformat)
List(validator) == [name |-> "list", validator |-> validator]
Map(validator) == [name |-> "map", validator |-> validator]
Dict(keys, vals) == [name |-> "dict", fields |-> [keys |-> keys, vals |-> vals]]
PyValidatorList(vs) == [name |-> "pylist", vs |-> vs]

\* the sentinels of LambdaFilter
TRUTHY == PyObject("LambdaFilter.TRUTHY")
FALSY == PyObject("LambdaFilter.FALSY")
NONE == PyObject("LambdaFilter.NONE")
NOTNONE == PyObject("LambdaFilter.NOTNONE")

\* isinstance(validator, Iterable)
IsIterable(validator) == validator.name = "pylist"

\* mutant: a validator that is not a list is dropped instead of wrapped
wrap_validator_list_DropsSingle(validator) ==
    IF IsIterable(validator) THEN validator.vs ELSE <<>>

wrap_validator_list(validator) ==
    IF IsIterable(validator) THEN validator.vs ELSE <<validator>>

(***************************************************************************)
(* The wrapped functions of LambdaMap and LambdaFilter, by name: what      *)
(* self._lambda(value) does.  A raise has the exception's class name and   *)
(* whether the class derives from Exception.                               *)
(***************************************************************************)
LambdaReturn(v) == [r |-> "return", v |-> v, exc |-> "", isException |-> FALSE]
LambdaRaise(exc, isException) ==
    [r |-> "raise", v |-> PyNone, exc |-> exc, isException |-> isException]

ApplyLambda(lambda, value) ==
    CASE lambda = "lambda v: None" -> LambdaReturn(PyNone)
      [] lambda = "lambda v: True" -> LambdaReturn(PyBool(TRUE))
      [] lambda = "lambda v: False" -> LambdaReturn(PyBool(FALSE))
      [] lambda = "lambda v: ''" -> LambdaReturn(PyStr(""))
      [] lambda = "lambda v: 'a'" -> LambdaReturn(PyStr("a"))
      [] lambda = "lambda v: LambdaFilter.TRUTHY" -> LambdaReturn(TRUTHY)
      [] lambda = "lambda v: LambdaFilter.FALSY" -> LambdaReturn(FALSY)
      [] lambda = "lambda v: LambdaFilter.NONE" -> LambdaReturn(NONE)
      [] lambda = "lambda v: LambdaFilter.NOTNONE" -> LambdaReturn(NOTNONE)
      [] lambda = "lambda v: v" -> LambdaReturn(value)
      [] lambda = "lambda v: v + 'x'" ->
            IF value.t = "str" THEN LambdaReturn(PyStr(value.s \o "x"))
            ELSE LambdaRaise("TypeError", TRUE)
      [] lambda = "lambda v: v or None" ->
            LambdaReturn(IF Truthy(value) THEN value ELSE PyNone)
      [] lambda = "lambda v: {'a': 'A'}.get(v)" ->
            IF value.t \in {"list", "dict"} THEN LambdaRaise("TypeError", TRUE)
            ELSE LambdaReturn(IF value = PyStr("a") THEN PyStr("A") ELSE PyNone)
      [] lambda = "lambda v: 1 / 0" -> LambdaRaise("ZeroDivisionError", TRUE)
      [] lambda = "lambda v: sys.exit(1)" -> LambdaRaise("SystemExit", FALSE)

\* str.lower() on the strings of the model
Lower(s) ==
    CASE s = "YES" -> "yes"
      [] s = "Yes" -> "yes"
      [] s = "On" -> "on"
      [] s = "OFF" -> "off"
      [] s = "No" -> "no"
      [] s = "False" -> "false"
      [] s = "TRUE" -> "true"
      [] OTHER -> s

(***************************************************************************)
(* socket.inet_pton(family, value) on a str: it returns ("ok"), raises     *)
(* socket.error, which is OSError, on a string that is not an address of   *)
(* the family, and raises ValueError on a string with an embedded NUL,     *)
(* before any parsing.  "<NUL>" stands for the character chr(0).           *)
(***************************************************************************)
IPv4Literals == {"127.0.0.1", "10.0.0.1"}
IPv6Literals == {"::1"}
EmbeddedNul == {"127.0.0.1<NUL>"}

inet_pton(family, s) ==
    CASE s \in EmbeddedNul -> "ValueError"
      [] family = "AF_INET" /\ s \in IPv4Literals -> "ok"
      [] family = "AF_INET6" /\ s \in IPv6Literals -> "ok"
      [] OTHER -> "OSError"

\* "ipv4" in self._type
InList(x, list) == \E i \in 1..Len(list) : list[i] = x

(***************************************************************************)
(* Content validators.                                                     *)
(***************************************************************************)
Exists_validate(self, key, value) == Return(self, PyNone, value, <<>>)

Bool_validate(self, key, value) ==
    IF value.t # "str"
    THEN Raise(self, OtherException("AttributeError", "lower"), value, <<>>)
    ELSE LET lowered == Lower(value.s) IN
         IF lowered \in {"yes", "true", "on"} THEN Return(self, PyBool(TRUE), value, <<>>)
         ELSE IF lowered \in {"no", "false", "off"} THEN Return(self, PyBool(FALSE), value, <<>>)
         ELSE raise_error(self, key, PyStr(lowered),
                          "Value does not appear to be a bool", "None")

Select_validate(self, key, value) ==
    IF value.t \in {"list", "dict"}
    THEN Raise(self, OtherException("TypeError", "unhashable type"), value, <<>>)
    ELSE IF value \notin self._options
         THEN raise_error(self, key, value, "None", "None")
         ELSE Return(self, PyNone, value, <<>>)

LengthMessage(which, length, op, bound) ==
    "value too " \o which \o " (" \o ToString(length) \o " " \o op \o " "
        \o ToString(bound) \o ")"

\* mutant: the max check runs before the min check
Length_validate_MaxFirst(self, key, value) ==
    IF value.t \notin {"str", "list", "dict"}
    THEN Raise(self, OtherException("TypeError", "has no len()"), value, <<>>)
    ELSE LET length == PyLen(value) IN
         IF self._max # <<>> /\ length > self._max[1]
         THEN raise_error(self, key, value,
                          LengthMessage("long", length, ">", self._max[1]), "None")
         ELSE IF self._min # <<>> /\ length < self._min[1]
         THEN raise_error(self, key, value,
                          LengthMessage("short", length, "<", self._min[1]), "None")
         ELSE Return(self, PyNone, value, <<>>)

Length_validate(self, key, value) ==
    IF value.t \notin {"str", "list", "dict"}
    THEN Raise(self, OtherException("TypeError", "has no len()"), value, <<>>)
    ELSE LET length == PyLen(value) IN
         IF self._min # <<>> /\ length < self._min[1]
         THEN raise_error(self, key, value,
                          LengthMessage("short", length, "<", self._min[1]), "None")
         ELSE IF self._max # <<>> /\ length > self._max[1]
         THEN raise_error(self, key, value,
                          LengthMessage("long", length, ">", self._max[1]), "None")
         ELSE Return(self, PyNone, value, <<>>)

\* mutant: a parse error is kept only when no earlier one was
IPAddressTry_KeepsFirst(self, family, name, value, st) ==
    IF st.escaped # "" \/ ~InList(name, self._type) THEN st
    ELSE LET parsed == IF value.t = "str" THEN inet_pton(family, value.s)
                       ELSE "TypeError" IN
         CASE parsed = "ok" -> [st EXCEPT !.dirty = FALSE]
           [] parsed = "OSError" ->
                IF st.error = "None"
                THEN [st EXCEPT !.error = "OSError(" \o family \o ")"]
                ELSE st
           [] OTHER -> [st EXCEPT !.escaped = parsed]

\* one "if family in self._type: try ... except socket.error ... else ..."
\* block: st is [dirty, error, escaped], escaped an exception the block
\* does not catch
IPAddressTry(self, family, name, value, st) ==
    IF st.escaped # "" \/ ~InList(name, self._type) THEN st
    ELSE LET parsed == IF value.t = "str" THEN inet_pton(family, value.s)
                       ELSE "TypeError" IN
         CASE parsed = "ok" -> [st EXCEPT !.dirty = FALSE]
           [] parsed = "OSError" ->
                IF name = "ipv4" \/ st.dirty
                THEN [st EXCEPT !.error = "OSError(" \o family \o ")"]
                ELSE st
           [] OTHER -> [st EXCEPT !.escaped = parsed]

\* mutant: a successful call keeps only the family that matched in self._type
IPAddress_validate_NarrowsType(self, key, value) ==
    LET st0 == [dirty |-> TRUE, error |-> "None", escaped |-> ""]
        st1 == IPAddressTry(self, "AF_INET", "ipv4", value, st0)
        st2 == IPAddressTry(self, "AF_INET6", "ipv6", value, st1)
    IN  IF st2.escaped # ""
        THEN Raise(self, OtherException(st2.escaped, "inet_pton"), value, <<>>)
        ELSE IF st2.dirty
        THEN raise_error(self, key, value, "None", st2.error)
        ELSE Return([self EXCEPT !._type = IF st1.dirty THEN <<"ipv6">> ELSE <<"ipv4">>],
                    PyNone, value, <<>>)

IPAddress_validate(self, key, value) ==
    LET st0 == [dirty |-> TRUE, error |-> "None", escaped |-> ""]
        st1 == IPAddressTry(self, "AF_INET", "ipv4", value, st0)
        st2 == IPAddressTry(self, "AF_INET6", "ipv6", value, st1)
    IN  IF st2.escaped # ""
        THEN Raise(self, OtherException(st2.escaped, "inet_pton"), value, <<>>)
        ELSE IF st2.dirty
        THEN raise_error(self, key, value, "None", st2.error)
        ELSE Return(self, PyNone, value, <<>>)

(***************************************************************************)
(* value.rpartition("@"), pattern.match(value), fromisoformat(value) and   *)
(* strptime(value, format) on the strings of the model.  A parse gives     *)
(* the isoformat of the date or time, "" when the parse raises ValueError. *)
(***************************************************************************)
RPartitionAt(s) ==
    CASE s = "a@b" -> <<"a", "@", "b">>
      [] s = "a@b@c" -> <<"a@b", "@", "c">>
      [] s = "@b" -> <<"", "@", "b">>
      [] s = "a@" -> <<"a", "@", "">>
      [] s = "a@x.com" -> <<"a", "@", "x.com">>
      [] s = "a@y.com" -> <<"a", "@", "y.com">>
      [] OTHER -> <<"", "", s>>
\* "@" in s
ContainsAt(s) == s \in {"a@b", "a@b@c", "@b", "a@", "a@x.com", "a@y.com", "@"}

ReMatch(pattern, s) ==
    CASE pattern = "^[0-9]{1,4}$" -> s \in {"42", "7"}
      [] pattern = "[0-9]{1,4}" ->
            s \in {"42", "7", "12345", "4a", "2020-01-02", "02/01/2020", "10:30",
                   "10:30:00", "10-30"}
      [] OTHER -> FALSE

FromIsoFormat(name, s) ==
    CASE name = "date" /\ s = "2020-01-02" -> "2020-01-02"
      [] name = "time" /\ s = "10:30" -> "10:30:00"
      [] name = "time" /\ s = "10:30:00" -> "10:30:00"
      [] OTHER -> ""
StrPTime(name, s, format) ==
    CASE name = "date" /\ format = "%d/%m/%Y" /\ s = "02/01/2020" -> "2020-01-02"
      [] name = "date" /\ format = "%Y-%m-%d" /\ s = "2020-01-02" -> "2020-01-02"
      [] name = "time" /\ format = "%H-%M" /\ s = "10-30" -> "10:30:00"
      [] OTHER -> ""

Email_validate(self, key, value) ==
    IF value.t # "str"
    THEN Raise(self, OtherException("AttributeError", "rpartition"), value, <<>>)
    ELSE LET first == RPartitionAt(value.s)[1]
             last == RPartitionAt(value.s)[3]
         IN  IF ContainsAt(first) \/ first = "" \/ last = ""
             THEN raise_error(self, key, value, "invalid email", "None")
             ELSE IF self._domain # <<>> /\ last # self._domain[1]
             THEN raise_error(self, key, value,
                              "invalid domain ('" \o self._domain[1] \o "')", "None")
             ELSE Return(self, PyNone, value, <<>>)

Regex_validate(self, key, value) ==
    IF value.t # "str"
    THEN Raise(self, OtherException("TypeError", "expected string"), value, <<>>)
    ELSE IF ~ReMatch(self.pattern, value.s)
         THEN raise_error(self, key, value, self.pattern, "None")
         ELSE Return(self, PyNone, value, <<>>)

\* Date.validate and Time.validate; self.name is "date" or "time"
DateOrTime_validate(self, key, value) ==
    IF value.t # "str"
    THEN Raise(self, OtherException("TypeError", "argument must be str"), value, <<>>)
    ELSE IF self.use_isoformat
    THEN LET parsed == FromIsoFormat(self.name, value.s) IN
         IF parsed # "" THEN Return(self, PyValue(self.name, parsed, <<>>, <<>>), value, <<>>)
         ELSE raise_error(self, key, value,
                          "invalid value for ISO " \o self.name \o " format", "None")
    ELSE IF self.format # <<>>
    THEN LET parsed == StrPTime(self.name, value.s, self.format[1]) IN
         IF parsed # "" THEN Return(self, PyValue(self.name, parsed, <<>>, <<>>), value, <<>>)
         ELSE raise_error(self, key, value,
                          "invalid value for format '" \o self.format[1] \o "'", "None")
    ELSE Raise(self, OtherException("ValueError",
                    "Neither a format nor use_isoformat exist."), value, <<>>)

Date_validate(self, key, value) == DateOrTime_validate(self, key, value)
Time_validate(self, key, value) == DateOrTime_validate(self, key, value)

(***************************************************************************)
(* Meta-validators.                                                        *)
(***************************************************************************)
\* mutant: no try/except around the call of the wrapped function
LambdaMap_validate_NoCatch(self, key, value) ==
    LET r == ApplyLambda(self._lambda, value) IN
    IF r.r = "return" THEN Return(self, r.v, value, <<>>)
    ELSE Raise(self, OtherException(r.exc, "None"), value, <<>>)

LambdaMap_validate(self, key, value) ==
    LET r == ApplyLambda(self._lambda, value) IN
    IF r.r = "return" THEN Return(self, r.v, value, <<>>)
    ELSE IF r.isException THEN raise_error(self, key, value, "None", r.exc)
    ELSE Raise(self, OtherException(r.exc, "None"), value, <<>>)

\* a == b on the values of the model
PyEq(a, b) == a = b

LambdaFilter_validate(self, key, value) ==
    LET r == ApplyLambda(self._lambda, value)
        m == self._matches
    IN  IF r.r = "raise"
        THEN Raise(self, OtherException(r.exc, "None"), value, <<>>)
        ELSE IF m = NONE /\ r.v = PyNone THEN Return(self, PyNone, value, <<>>)
        ELSE IF m = NOTNONE /\ r.v # PyNone THEN Return(self, PyNone, value, <<>>)
        ELSE IF m = TRUTHY /\ Truthy(r.v) THEN Return(self, PyNone, value, <<>>)
        ELSE IF m = FALSY /\ ~Truthy(r.v) THEN Return(self, PyNone, value, <<>>)
        ELSE IF PyEq(r.v, m) THEN Return(self, PyNone, value, <<>>)
        ELSE raise_error(self, key, value, "failed to match " \o m.s, "None")

(***************************************************************************)
(* Key paths: f"{key}[{index}]", f"{key}.{dict_key}", f"{key}[{map_key}]". *)
(***************************************************************************)
\* mutant: the index in the path counts from one
ListPath_OneBased(key, index) == key \o "[" \o ToString(index + 1) \o "]"

ListPath(key, index) == key \o "[" \o ToString(index) \o "]"
DictPath(key, dict_key) == key \o "." \o dict_key
MapPath(key, map_key) == key \o "[" \o map_key \o "]"

(***************************************************************************)
(* Data structure validators and the runner u.validate_item.               *)
(***************************************************************************)
RECURSIVE validate(_, _, _)
RECURSIVE RunChain(_, _, _, _)
RECURSIVE ListLoop(_, _, _, _, _)
RECURSIVE DictLoop(_, _, _, _, _)
RECURSIVE MapLoop(_, _, _, _, _)

\* the loop of the runner over the validators vs from position i on; st has
\* the argument object (arg), the current value (cur), whether the current
\* value still is the argument object (same), whether a validator returned
\* a replacement (changed), and the calls made so far
RunChain(vs, i, path, st) ==
    LET \* what follows the call of validator i, which did r
        After(r) ==
            LET vs2 == [vs EXCEPT ![i] = r.self]
                arg2 == IF st.same THEN r.val ELSE st.arg
                calls2 == st.calls \o r.calls
            IN  IF r.st = "raise" THEN Raise(vs2, r.err, arg2, calls2)
                ELSE RunChain(vs2, i + 1, path,
                              [arg |-> arg2,
                               cur |-> IF r.out # PyNone THEN r.out ELSE r.val,
                               same |-> st.same /\ r.out = PyNone,
                               changed |-> st.changed \/ r.out # PyNone,
                               calls |-> calls2])
    IN  IF i > Len(vs)
        THEN Return(vs, IF st.changed THEN st.cur ELSE PyNone, st.arg, st.calls)
        ELSE After(validate(vs[i], path, st.cur))

\* the validator, or list of validators, whose validators ended up as vs
Rewrap(validators, vs) ==
    IF IsIterable(validators) THEN PyValidatorList(vs)
    ELSE IF Len(vs) = 1 THEN vs[1] ELSE validators

\* u.validate_item(validators, path, value)
validate_item(validators, path, value) ==
    LET Done(r) == [r EXCEPT !.self = Rewrap(validators, r.self)]
    IN  Done(RunChain(wrap_validator_list(validators), 1, path,
                      [arg |-> value, cur |-> value, same |-> TRUE,
                       changed |-> FALSE, calls |-> <<>>]))

\* mutant: the output is stored without the test for None
StoreOutput_Unconditional(value, i, r) == SetItem(value, i, r.out)

\* "if output is not None: value[...] = output" after a validate_item call
\* on the item at position i that returned r
StoreOutput(value, i, r) ==
    SetItem(value, i, IF r.out # PyNone THEN r.out ELSE r.val)

\* the for loop of List.validate from index (0-based) on
ListLoop(self, key, value, index, calls) ==
    LET \* what follows the validate_item call, which did r
        After(r) ==
            LET self2 == [self EXCEPT !.validator = r.self]
            IN  IF r.st = "raise"
                THEN Raise(self2, r.err, SetItem(value, index + 1, r.val),
                           calls \o r.calls)
                ELSE ListLoop(self2, key, StoreOutput(value, index + 1, r),
                              index + 1, calls \o r.calls)
    IN  IF index >= Len(value.items) THEN Return(self, PyNone, value, calls)
        ELSE After(validate_item(self.validator, ListPath(key, index),
                                 value.items[index + 1]))

\* mutant: a failed loop leaves the list as it was given
List_validate_RollsBack(self, key, value) ==
    IF value.t # "list"
    THEN raise_error(self, key, value, "Form field is not a list", "None")
    ELSE LET Done(r) == IF r.st = "raise" THEN [r EXCEPT !.val = value] ELSE r
         IN  Done(ListLoop(self, key, value, 0, <<>>))

List_validate(self, key, value) ==
    IF value.t # "list"
    THEN raise_error(self, key, value, "Form field is not a list", "None")
    ELSE ListLoop(self, key, value, 0, <<>>)

\* the for loop of Dict.validate over self.fields.items() from entry j on
DictLoop(self, key, value, j, calls) ==
    LET \* what follows the validate_item call on value[dict_key], at
        \* position i of the dict, which did r
        After(i, r) ==
            LET self2 == [self EXCEPT !.fields.vals[j] = r.self]
            IN  IF r.st = "raise"
                THEN Raise(self2, r.err, SetItem(value, i, r.val), calls \o r.calls)
                ELSE DictLoop(self2, key, StoreOutput(value, i, r),
                              j + 1, calls \o r.calls)
        \* try: value[dict_key], found at position i, 0 for a KeyError
        Try(dict_key, i) ==
            IF i = 0
            THEN Raise(self, FormKeyError(<<DictPath(key, dict_key)>>), value, calls)
            ELSE After(i, validate_item(self.fields.vals[j],
                                        DictPath(key, dict_key), value.items[i]))
    IN  IF j > Len(self.fields.keys) THEN Return(self, PyNone, value, calls)
        ELSE Try(self.fields.keys[j], KeyIndex(value, self.fields.keys[j]))

\* mutant: a key of the value that is not configured is rejected
Dict_validate_Strict(self, key, value) ==
    IF value.t # "dict"
    THEN raise_error(self, key, value, "Form field is not a dict", "None")
    ELSE IF \E i \in 1..Len(value.keys) :
                \A j \in 1..Len(self.fields.keys) : value.keys[i] # self.fields.keys[j]
    THEN raise_error(self, key, value, "unexpected key", "None")
    ELSE DictLoop(self, key, value, 1, <<>>)

Dict_validate(self, key, value) ==
    IF value.t # "dict"
    THEN raise_error(self, key, value, "Form field is not a dict", "None")
    ELSE DictLoop(self, key, value, 1, <<>>)

\* the for loop of Map.validate over value.items() from entry i on
MapLoop(self, key, value, i, calls) ==
    LET \* what follows the validate_item call, which did r
        After(r) ==
            LET self2 == [self EXCEPT !.validator = r.self]
            IN  IF r.st = "raise"
                THEN Raise(self2, r.err, SetItem(value, i, r.val), calls \o r.calls)
                ELSE MapLoop(self2, key, StoreOutput(value, i, r), i + 1,
                             calls \o r.calls)
    IN  IF i > Len(value.keys) THEN Return(self, PyNone, value, calls)
        ELSE After(validate_item(self.validator, MapPath(key, value.keys[i]),
                                 value.items[i]))

Map_validate(self, key, value) ==
    IF value.t # "dict"
    THEN raise_error(self, key, value, "Form field is not a dict", "None")
    ELSE MapLoop(self, key, value, 1, <<>>)

\* one entry of the call list: the call v.validate(key, value) and what it did
Call(self, key, value, r) ==
    [v |-> self, key |-> key, value |-> value, st |-> r.st, out |-> r.out,
     err |-> r.err]

\* v.validate(key, value): the method of the validator's class
validate(self, key, value) ==
    LET Logged(r) == [r EXCEPT !.calls = <<Call(self, key, value, r)>> \o r.calls]
    IN  Logged(CASE self.name = "list" -> List_validate(self, key, value)
                 [] self.name = "dict" -> Dict_validate(self, key, value)
                 [] self.name = "map" -> Map_validate(self, key, value)
                 [] self.name = "lambdamap" -> LambdaMap_validate(self, key, value)
                 [] self.name = "lambdafilter" -> LambdaFilter_validate(self, key, value)
                 [] self.name = "bool" -> Bool_validate(self, key, value)
                 [] self.name = "exists" -> Exists_validate(self, key, value)
                 [] self.name = "ipaddress" -> IPAddress_validate(self, key, value)
                 [] self.name = "length" -> Length_validate(self, key, value)
                 [] self.name = "select" -> Select_validate(self, key, value)
                 [] self.name = "email" -> Email_validate(self, key, value)
                 [] self.name = "regex" -> Regex_validate(self, key, value)
                 [] self.name = "date" -> Date_validate(self, key, value)
                 [] self.name = "time" -> Time_validate(self, key, value))

(***************************************************************************)
(* populate.  The result is the mapping populate returns (out) and the     *)
(* validator object as the call left it (self).                            *)
(***************************************************************************)
\* the order of sorted() on the strings of the model
SortOrder == <<"", "a", "b", "c", "z">>
Sorted(options) == SelectSeq(SortOrder, LAMBDA o : PyStr(o) \in options)

RECURSIVE populate(_, _)
RECURSIVE PopulateAll(_, _, _, _)

\* [v.populate(name) for v in vs] from position i on; outs are the results
PopulateAll(vs, i, name, outs) ==
    IF i > Len(vs) THEN [out |-> outs, self |-> vs]
    ELSE LET After(r) ==
                PopulateAll([vs EXCEPT ![i] = r.self], i + 1, name, Append(outs, r.out))
         IN  After(populate(vs[i], name))

List_populate(self, name) ==
    LET Done(r) ==
            [out |-> [validators |-> r.out],
             self |-> [self EXCEPT !.validator = Rewrap(self.validator, r.self)]]
    IN  Done(PopulateAll(wrap_validator_list(self.validator), 1, name \o "[]", <<>>))

Map_populate(self, name) ==
    LET Done(r) ==
            [out |-> [validators |-> r.out],
             self |-> [self EXCEPT !.validator = Rewrap(self.validator, r.self)]]
    IN  Done(PopulateAll(wrap_validator_list(self.validator), 1, name \o "{}", <<>>))

RECURSIVE DictPopulateLoop(_, _, _, _)
DictPopulateLoop(self, name, j, output) ==
    IF j > Len(self.fields.keys) THEN [out |-> output, self |-> self]
    ELSE LET After(r) ==
                DictPopulateLoop(
                    [self EXCEPT !.fields.vals[j] = Rewrap(self.fields.vals[j], r.self)],
                    name, j + 1, Append(output, <<self.fields.keys[j], r.out>>))
         IN  After(PopulateAll(wrap_validator_list(self.fields.vals[j]), 1,
                               DictPath(name, self.fields.keys[j]), <<>>))

Dict_populate(self, name) == DictPopulateLoop(self, name, 1, <<>>)

IPAddress_populate(self, name) == [out |-> [type |-> self._type], self |-> self]
Length_populate(self, name) ==
    [out |-> [min |-> self._min, max |-> self._max], self |-> self]
Select_populate(self, name) ==
    [out |-> [options |-> Sorted(self._options)], self |-> self]
Email_populate(self, name) == [out |-> [domain |-> self._domain], self |-> self]
Regex_populate(self, name) == [out |-> [pattern |-> self.pattern], self |-> self]
Date_populate(self, name) ==
    [out |-> [fmt |-> self.format, use_isoformat |-> self.use_isoformat], self |-> self]
Time_populate(self, name) ==
    [out |-> [fmt |-> self.format, use_isoformat |-> self.use_isoformat], self |-> self]
\* Validator.populate, which the other classes inherit
Validator_populate(self, name) == [out |-> <<>>, self |-> self]

populate(self, name) ==
    CASE self.name = "list" -> List_populate(self, name)
      [] self.name = "dict" -> Dict_populate(self, name)
      [] self.name = "map" -> Map_populate(self, name)
      [] self.name = "ipaddress" -> IPAddress_populate(self, name)
      [] self.name = "length" -> Length_populate(self, name)
      [] self.name = "select" -> Select_populate(self, name)
      [] self.name = "email" -> Email_populate(self, name)
      [] self.name = "regex" -> Regex_populate(self, name)
      [] self.name = "date" -> Date_populate(self, name)
      [] self.name = "time" -> Time_populate(self, name)
      [] OTHER -> Validator_populate(self, name)

(***************************************************************************)
(* The validators and the values the model runs them on.                   *)
(***************************************************************************)
SeqsUpTo(S, n) == UNION {[1..k -> S] : k \in 0..n}
InjectiveSeqsUpTo(S, n) ==
    {q \in SeqsUpTo(S, n) : \A i, j \in 1..Len(q) : i # j => q[i] # q[j]}

RECURSIVE StrOfLen(_)
StrOfLen(n) == IF n = 0 THEN "" ELSE "x" \o StrOfLen(n - 1)

\* validators of one str value
LeafValidators ==
    {Bool, Length(<<1>>, <<>>), LambdaMap("lambda v: v + 'x'"),
     LambdaMap("lambda v: {'a': 'A'}.get(v)")}
SmallChains ==
    {Exists, Length(<<1>>, <<>>), LambdaMap("lambda v: {'a': 'A'}.get(v)"),
     PyValidatorList(<<Select({"a", "b"}), LambdaMap("lambda v: v + 'x'")>>)}
\* a validator or a list of validators
Chains ==
    LeafValidators \cup {PyValidatorList(vs) : vs \in SeqsUpTo(LeafValidators, MaxChain)}

ElemValues == {PyStr(""), PyStr("a"), PyStr("Yes")}
ElemLists == {PyList(items) : items \in SeqsUpTo(ElemValues, MaxLen)}
MapKeySeqs == {<<>>, <<"k1">>, <<"k1", "k2">>, <<"k2", "k1">>, <<"k3", "k1", "k2">>,
               <<"k4", "k3", "k2", "k1">>}
ElemMaps ==
    UNION {{PyDict(keys, items) : items \in [1..Len(keys) -> ElemValues]} :
           keys \in {q \in MapKeySeqs : Len(q) <= MaxLen}}
NotContainers == {PyStr("a"), PyNone}

ListScenarios ==
    {[validator |-> List(c), value |-> v] :
        c \in Chains, v \in ElemLists \cup NotContainers \cup {PyDict(<<>>, <<>>)}}
MapScenarios ==
    {[validator |-> Map(c), value |-> v] :
        c \in Chains, v \in ElemMaps \cup NotContainers \cup {PyList(<<>>)}}

FieldNames == {"x", "y", "u"}
DictElemValues == {PyStr(""), PyStr("a")}
DictValues ==
    UNION {{PyDict(keys, items) : items \in [1..Len(keys) -> DictElemValues]} :
           keys \in InjectiveSeqsUpTo(FieldNames, MaxLen)}
DictValidators ==
    {Dict(<<"x">>, <<c>>) : c \in SmallChains}
    \cup {Dict(keys, <<c1, c2>>) :
            keys \in {<<"x", "y">>, <<"y", "x">>}, c1 \in SmallChains, c2 \in SmallChains}
DictScenarios ==
    {[validator |-> d, value |-> v] :
        d \in DictValidators, v \in DictValues \cup NotContainers \cup {PyList(<<>>)}}

\* containers in containers, two and three deep
InnerLists == {PyList(<<>>), PyList(<<PyStr("a")>>), PyList(<<PyStr(""), PyStr("a")>>),
               PyList(<<PyStr("a"), PyStr("")>>)}
InnerDicts == {PyDict(<<"x">>, <<PyStr("a")>>), PyDict(<<"u", "x">>, <<PyStr("a"), PyStr("")>>),
               PyDict(<<"u">>, <<PyStr("a")>>)}
DeepValues ==
    {PyList(<<PyDict(<<"x">>, <<PyList(<<PyStr("a"), PyStr("")>>)>>)>>),
     PyList(<<PyDict(<<"x">>, <<PyList(<<PyStr("a")>>)>>),
              PyDict(<<"x">>, <<PyList(<<PyStr("a"), PyStr("")>>)>>)>>)}
NestedScenarios ==
    {[validator |-> List(List(c)), value |-> PyList(items)] :
        c \in SmallChains, items \in SeqsUpTo(InnerLists, MaxLen)}
    \cup {[validator |-> Map(List(c)), value |-> PyDict(<<"k1", "k2">>, items)] :
        c \in SmallChains, items \in [1..2 -> InnerLists]}
    \cup {[validator |-> List(Dict(<<"x">>, <<c>>)), value |-> PyList(items)] :
        c \in SmallChains, items \in SeqsUpTo(InnerDicts, MaxLen)}
    \cup {[validator |-> Dict(<<"x", "y">>, <<Map(c), List(c)>>),
           value |-> PyDict(<<"y", "x">>, <<l, PyDict(<<"k1">>, <<e>>)>>)] :
        c \in SmallChains, l \in InnerLists, e \in DictElemValues}
    \cup {[validator |-> List(Dict(<<"x">>, <<List(c)>>)), value |-> v] :
        c \in SmallChains, v \in DeepValues}

IPStrings == {"127.0.0.1", "10.0.0.1", "::1", "999.1.1.1", "127.0.0.1<NUL>", ""}
AddressTypes ==
    {<<>>, DefaultAddressType, <<"ipv6">>, <<"ipv4", "ipv6">>, <<"ipv6", "ipv4">>}
IPAddressScenarios ==
    {[validator |-> IPAddress(t), value |-> PyStr(s)] : t \in AddressTypes, s \in IPStrings}

FilterLambdas ==
    {"lambda v: None", "lambda v: True", "lambda v: False", "lambda v: ''",
     "lambda v: 'a'", "lambda v: LambdaFilter.TRUTHY", "lambda v: LambdaFilter.FALSY",
     "lambda v: LambdaFilter.NONE", "lambda v: LambdaFilter.NOTNONE", "lambda v: v",
     "lambda v: v or None", "lambda v: 1 / 0"}
FilterMatches == {TRUTHY, FALSY, NONE, NOTNONE, PyStr("a"), PyBool(FALSE), PyNone}
LambdaFilterScenarios ==
    {[validator |-> LambdaFilter(f, m), value |-> v] :
        f \in FilterLambdas, m \in FilterMatches, v \in {PyStr(""), PyStr("a")}}

MapLambdas ==
    {"lambda v: None", "lambda v: False", "lambda v: v + 'x'", "lambda v: v or None",
     "lambda v: {'a': 'A'}.get(v)",
     "lambda v: 1 / 0", "lambda v: sys.exit(1)"}
LambdaMapScenarios ==
    {[validator |-> LambdaMap(f), value |-> v] : f \in MapLambdas, v \in ElemValues}
    \cup {[validator |-> List(LambdaMap(f)), value |-> v] :
            f \in MapLambdas, v \in ElemLists}
    \cup {[validator |-> Dict(<<"x">>, <<LambdaMap(f)>>), value |-> PyDict(<<"x">>, <<v>>)] :
            f \in MapLambdas, v \in ElemValues}

Bounds == {<<>>} \cup {<<n>> : n \in 0..MaxBound}
Sized ==
    {PyStr(StrOfLen(n)) : n \in 0..(MaxBound + 1)}
    \cup {PyList([i \in 1..n |-> PyStr("a")]) : n \in 0..(MaxBound + 1)}
LengthScenarios ==
    {[validator |-> Length(min, max), value |-> v] :
        min \in Bounds, max \in Bounds, v \in Sized}

TextValidators ==
    {Email(<<>>), Email(<<"x.com">>), Regex("^[0-9]{1,4}$"), Regex("[0-9]{1,4}"),
     Date(<<>>, FALSE, TRUE), Date(<<"%d/%m/%Y">>, FALSE, FALSE),
     Date(<<"%Y-%m-%d">>, TRUE, TRUE), Time(<<>>, FALSE, TRUE),
     Time(<<"%H-%M">>, FALSE, FALSE), Select({"a", "b", "c"}), Bool, Exists}
Texts ==
    {"a@b", "a@b@c", "@b", "a@", "a@x.com", "a@y.com", "42", "12345", "4a",
     "2020-01-02", "02/01/2020", "10:30", "10-30", "a", "c", "YES", "On", "OFF",
     "No", "False", "TRUE", "maybe"}
TextScenarios ==
    {[validator |-> v, value |-> PyStr(t)] : v \in TextValidators, t \in Texts}

ChainScenarios ==
    {[validator |-> c, value |-> v] : c \in Chains, v \in ElemValues}

Scenarios ==
    ListScenarios \cup MapScenarios \cup DictScenarios \cup NestedScenarios
    \cup IPAddressScenarios \cup LambdaFilterScenarios \cup LambdaMapScenarios
    \cup LengthScenarios \cup TextScenarios \cup ChainScenarios

(***************************************************************************)
(* The state: one field of a form with its validators, and the calls the   *)
(* request layer makes on it.                                              *)
(***************************************************************************)
VARIABLES
    validator,  \* the validator, or list of validators, of the field
    key,        \* the name of the field
    value,      \* the value of the field, owned by the caller
    op,         \* the last call: "none", "validate", "validate_item", "populate"
    before,     \* validator and value as they were before the last call
    result,     \* what the last validate or validate_item call did
    hints,      \* what the last populate call returned
    history     \* one entry per validate or validate_item call so far

vars == <<validator, key, value, op, before, result, hints, history>>

NoResult == Return(NoValidator, PyNone, PyNone, <<>>)

Init ==
    /\ \E sc \in Scenarios : validator = sc.validator /\ value = sc.value
    /\ key = "key"
    /\ op = "none"
    /\ before = [validator |-> validator, value |-> value]
    /\ result = NoResult
    /\ hints = <<>>
    /\ history = <<>>

Entry(name, r) ==
    [op |-> name, validator |-> validator, value |-> value, st |-> r.st,
     out |-> r.out, err |-> r.err, val |-> r.val]

\* the caller invokes validator.validate(key, value)
CallValidate ==
    /\ Len(history) < MaxRuns
    /\ \A n \in 1..Len(history) : history[n].op = "validate"
    /\ ~IsIterable(validator)
    /\ LET Did(r) ==
            /\ result' = r
            /\ validator' = r.self
            /\ value' = r.val
            /\ history' = Append(history, Entry("validate", r))
       IN  Did(validate(validator, key, value))
    /\ op' = "validate"
    /\ before' = [validator |-> validator, value |-> value]
    /\ UNCHANGED <<key, hints>>

\* the caller invokes u.validate_item(validator, key, value) and stores a
\* replacement value
CallValidateItem ==
    /\ Len(history) < MaxRuns
    /\ \A n \in 1..Len(history) : history[n].op = "validate_item"
    /\ LET Did(r) ==
            /\ result' = r
            /\ validator' = r.self
            /\ value' = IF r.st = "return" /\ r.out # PyNone THEN r.out ELSE r.val
            /\ history' = Append(history, Entry("validate_item", r))
       IN  Did(validate_item(validator, key, value))
    /\ op' = "validate_item"
    /\ before' = [validator |-> validator, value |-> value]
    /\ UNCHANGED <<key, hints>>

\* the caller invokes populate(key) on the validators of the field
CallPopulate ==
    /\ op # "populate"
    /\ LET Did(r) ==
            /\ hints' = r.out
            /\ validator' = Rewrap(validator, r.self)
       IN  Did(PopulateAll(wrap_validator_list(validator), 1, key, <<>>))
    /\ op' = "populate"
    /\ before' = [validator |-> validator, value |-> value]
    /\ UNCHANGED <<key, value, result, history>>

Next == CallValidate \/ CallValidateItem \/ CallPopulate

Spec == Init /\ [][Next]_vars

(***************************************************************************)
(* Definitions the properties share.                                       *)
(***************************************************************************)
IsStructural(v) == v.name \in {"list", "dict", "map"}
IsLeaf(v) == ~IsStructural(v) /\ ~IsIterable(v)
\* the value is of the type the structural validator v iterates
ContainerOk(v, val) ==
    \/ v.name = "list" /\ val.t = "list"
    \/ v.name \in {"dict", "map"} /\ val.t = "dict"
\* the validators accept val when run on it alone
Accepts(validators, val) == validate_item(validators, "", val).st = "return"
\* the last call was validator.validate(key, value) on a validator of class
\* name with a value of type t
Validated(name, t) ==
    op = "validate" /\ before.validator.name = name /\ before.value.t = t

\* the configured fields of Dict d that the dict v lacks, and those that v
\* has but whose validators reject the value
MissingField(d, v, j) == KeyIndex(v, d.fields.keys[j]) = 0
RejectedField(d, v, j) ==
    /\ ~MissingField(d, v, j)
    /\ ~Accepts(d.fields.vals[j], v.items[KeyIndex(v, d.fields.keys[j])])
BadFields(d, v) ==
    {j \in 1..Len(d.fields.keys) : MissingField(d, v, j) \/ RejectedField(d, v, j)}

(***************************************************************************)
(* C1.  Dict.validate(key, value) on a dict value: when the first          *)
(* configured field that is absent or rejected is an absent field f, the   *)
(* call fails with a FormKeyError whose key is key.f; when every           *)
(* configured field is present and accepted, the call raises nothing.      *)
(***************************************************************************)
C1_MissingFieldRaisesFormKeyError ==
    Validated("dict", "dict") =>
        LET d == before.validator
            v == before.value
            bad == BadFields(d, v)
        IN  /\ bad = {} => result.st = "return"
            /\ \A j \in bad :
                (MissingField(d, v, j) /\ \A k \in bad : j <= k) =>
                    /\ result.st = "raise"
                    /\ result.err.kind \in FormErrorKinds
                    /\ result.err.kind = "FormKeyError"
                    /\ result.err.key = key \o "." \o d.fields.keys[j]

(***************************************************************************)
(* C2.  When a child validator rejects an element of a container, the      *)
(* ValidationError that leaves the structural validator is the error the   *)
(* child raised, unchanged, and its key is the key path of the first       *)
(* rejected element: key[i] in a List, key[k] in a Map, key.f in a Dict.   *)
(* It is stated of every structural call of the run, so that at any depth  *)
(* the path is the concatenation of the suffixes.                          *)
(***************************************************************************)
\* the positions of the container a structural call e iterates, the
\* validators it applies at position p, the element there and its key path
Positions(e) ==
    IF e.v.name = "dict"
    THEN {j \in 1..Len(e.v.fields.keys) : ~MissingField(e.v, e.value, j)}
    ELSE 1..Len(e.value.items)
ChildAt(e, p) == IF e.v.name = "dict" THEN e.v.fields.vals[p] ELSE e.v.validator
ElementAt(e, p) ==
    IF e.v.name = "dict"
    THEN e.value.items[KeyIndex(e.value, e.v.fields.keys[p])]
    ELSE e.value.items[p]
ElementKey(e, p) ==
    CASE e.v.name = "list" -> e.key \o "[" \o ToString(p - 1) \o "]"
      [] e.v.name = "map" -> e.key \o "[" \o e.value.keys[p] \o "]"
      [] e.v.name = "dict" -> e.key \o "." \o e.v.fields.keys[p]
RejectedAt(e, p) == ~Accepts(ChildAt(e, p), ElementAt(e, p))

C2_ChildErrorKeyIsElementPath ==
    \A n \in 1..Len(result.calls) :
        LET e == result.calls[n] IN
        (/\ IsStructural(e.v) /\ ContainerOk(e.v, e.value)
         /\ e.st = "raise" /\ e.err.kind = "ValidationError") =>
            \E p \in Positions(e) :
                /\ RejectedAt(e, p)
                /\ \A q \in Positions(e) : RejectedAt(e, q) => p <= q
                /\ \E m \in (n + 1)..Len(result.calls) :
                    LET c == result.calls[m] IN
                    /\ c.key = ElementKey(e, p)
                    /\ c.st = "raise"
                    /\ c.err = e.err
                    /\ IsLeaf(c.v) => (e.err.key = c.key /\ e.err.validator = c.v)

\* a List of Dicts of Lists rejected the second element of the inner list
C2_Witness ==
    /\ Validated("list", "list")
    /\ result.st = "raise"
    /\ result.err.kind = "ValidationError"
    /\ result.err.key = "key[0].x[1]"

(***************************************************************************)
(* C3.  A chain [v1..vn] applied to one value: the validators are called   *)
(* in list order, each with the value as replaced by the most recent       *)
(* earlier validator that returned a value other than None; when one       *)
(* raises, no later one is called and its error reaches the caller; a      *)
(* single validator given instead of a list is the one-element chain.  It  *)
(* is stated of the runner called on the field and of the chain a List     *)
(* applies to each element.                                                *)
(***************************************************************************)
\* the chain a validator or list of validators stands for
ChainOf(validators) ==
    IF validators.name = "pylist" THEN validators.vs ELSE <<validators>>
AllLeaf(validators) ==
    \A i \in 1..Len(ChainOf(validators)) : IsLeaf(ChainOf(validators)[i])
\* the value the i-th call of a chain started on v0 has to receive
Received(v0, es, i) ==
    IF i = 1 THEN v0
    ELSE IF \E k \in 1..(i - 1) : es[k].out # PyNone
         THEN LET k == CHOOSE k \in 1..(i - 1) :
                        /\ es[k].out # PyNone
                        /\ \A l \in (k + 1)..(i - 1) : es[l].out = PyNone
              IN  es[k].out
         ELSE v0
\* es are the calls of one run of the chain vs on v0
ChainRun(vs, v0, es) ==
    /\ Len(es) <= Len(vs)
    /\ \A i \in 1..Len(es) :
        /\ es[i].v = vs[i]
        /\ es[i].value = Received(v0, es, i)
        /\ es[i].st = "raise" => i = Len(es)
    /\ Len(es) < Len(vs) => (Len(es) > 0 /\ es[Len(es)].st = "raise")
Raised(es) == es # <<>> /\ es[Len(es)].st = "raise"
CallsAt(path) == SelectSeq(result.calls, LAMBDA e : e.key = path)

IsScalar(val) == val.t \notin {"list", "dict"}

Configured(d) == {d.fields.keys[j] : j \in 1..Len(d.fields.keys)}
RECURSIVE Restrict(_, _, _)
\* the dict v without the keys outside S, from position i on
Restrict(v, S, i) ==
    IF i > Len(v.keys) THEN PyDict(<<>>, <<>>)
    ELSE LET rest == Restrict(v, S, i + 1) IN
         IF v.keys[i] \in S
         THEN PyDict(<<v.keys[i]>> \o rest.keys, <<v.items[i]>> \o rest.items)
         ELSE rest

C5_UnconfiguredKeysIgnored ==
    Validated("dict", "dict") =>
        LET d == before.validator
            v == before.value
            alone == validate(d, key, Restrict(v, Configured(d), 1))
        IN  /\ value.keys = v.keys
            /\ \A i \in 1..Len(v.keys) :
                    v.keys[i] \notin Configured(d) => value.items[i] = v.items[i]
            /\ result.st = alone.st
            /\ result.err.kind = alone.err.kind
            /\ result.err.key = alone.err.key
            /\ \A n \in 2..Len(result.calls) :
                    \A i \in 1..Len(v.keys) :
                        v.keys[i] \notin Configured(d) =>
                            result.calls[n].key # key \o "." \o v.keys[i]
            /\ (\A j \in 1..Len(d.fields.keys) : AllLeaf(d.fields.vals[j])) =>
                    \A n \in 2..Len(result.calls) :
                        \E j \in 1..Len(d.fields.keys) :
                            result.calls[n].key = key \o "." \o d.fields.keys[j]

\* a dict with the unconfigured key u passed and had a configured field replaced
C5_Witness ==
    /\ Validated("dict", "dict")
    /\ result.st = "return"
    /\ \E i \in 1..Len(before.value.keys) : before.value.keys[i] = "u"
    /\ value # before.value

(***************************************************************************)
(* C6.  IPAddress.validate on a str returns, with no replacement, exactly  *)
(* when the value is an address of one of the requested families, for      *)
(* every list of families; otherwise it raises a ValidationError.          *)
(***************************************************************************)
ParsesAs(name, s) ==
    \/ name = "ipv4" /\ s \in IPv4Literals
    \/ name = "ipv6" /\ s \in IPv6Literals

C6_IPAddressAcceptsRequestedFamilies ==
    Validated("ipaddress", "str") =>
        LET parses == \E name \in {"ipv4", "ipv6"} :
                        /\ InList(name, before.validator._type)
                        /\ ParsesAs(name, before.value.s)
        IN  /\ parses <=> result.st = "return"
            /\ result.st = "return" => result.out = PyNone
            /\ ~parses => (result.st = "raise" /\ result.err.kind = "ValidationError")

(***************************************************************************)
(* C7.  LambdaFilter.validate, when the wrapped function returns, returns  *)
(* exactly when the output matches the mode: TRUTHY a truthy output,       *)
(* FALSY a falsy one, NONE the output None, NOTNONE an output other than   *)
(* None, any other matches an output equal to it; otherwise it raises a    *)
(* ValidationError.  It never returns a replacement.                       *)
(***************************************************************************)
MatchesMode(m, output) ==
    CASE m = TRUTHY -> Truthy(output)
      [] m = FALSY -> ~Truthy(output)
      [] m = NONE -> output = PyNone
      [] m = NOTNONE -> output # PyNone
      [] OTHER -> output = m

C7_LambdaFilterMatchesMode ==
    LET f == ApplyLambda(before.validator._lambda, before.value) IN
    (Validated("lambdafilter", "str") /\ f.r = "return") =>
        /\ MatchesMode(before.validator._matches, f.v) <=> result.st = "return"
        /\ result.st = "raise" => result.err.kind = "ValidationError"
        /\ result.out = PyNone

C9_LengthBoundsInclusive ==
    (op = "validate" /\ before.validator.name = "length"
        /\ before.value.t \in {"str", "list"}) =>
        LET min == before.validator._min
            max == before.validator._max
            length == PyLen(before.value)
            short == min # <<>> /\ length < min[1]
            long == max # <<>> /\ length > max[1]
        IN  /\ result.st = "return" <=> (~short /\ ~long)
            /\ result.st = "return" => result.out = PyNone
            /\ short =>
                result.err = ValidationError(key, before.value, before.validator,
                    "value too short (" \o ToString(length) \o " < "
                        \o ToString(min[1]) \o ")", "None")
            /\ (long /\ ~short) =>
                result.err = ValidationError(key, before.value, before.validator,
                    "value too long (" \o ToString(length) \o " > "
                        \o ToString(max[1]) \o ")", "None")

\* min above max and a length between them: both checks fail, too short is
\* what is reported
C9_Witness ==
    /\ op = "validate"
    /\ before.validator.name = "length"
    /\ before.validator._min = <<2>>
    /\ before.validator._max = <<0>>
    /\ PyLen(before.value) = 1
    /\ result.st = "raise"
    /\ result.err.message = "value too short (1 < 2)"

(***************************************************************************)
(* C10.  No call of validate, validate_item or populate changes a          *)
(* validator: after every call the validators of the field are as they     *)
(* were before it, so every run started with the validators of the first   *)
(* run, and two successive runs that start on the same value end the same  *)
(* way, both returning or both raising an error of the same kind and key.  *)
(***************************************************************************)
C10_ValidatorsUnchanged ==
    /\ validator = before.validator
    /\ \A n \in 1..Len(history) : history[n].validator = history[1].validator
    /\ \A n \in 2..Len(history) :
        history[n].value = history[n - 1].value =>
            /\ history[n].st = history[n - 1].st
            /\ history[n].err.kind = history[n - 1].err.kind
            /\ history[n].err.key = history[n - 1].err.key

\* an IPAddress of both families accepted the same value twice, and populate
\* ran after that
C10_Witness ==
    /\ Len(history) = 2
    /\ validator.name = "ipaddress"
    /\ Len(validator._type) = 2
    /\ history[1].st = "return"
    /\ history[1].out = PyNone
    /\ history[2].value = history[1].value
    /\ history[2].st = "return"
    /\ op = "populate"

(***************************************************************************)
(* C11.  IPAddress.validate on an IPAddress constructed with both          *)
(* families.  As claimed: when inet_pton raises socket.error for the       *)
(* value under both families, the ValidationError raised carries the error *)
(* of the IPv4 parse; when the IPv4 parse succeeds and the IPv6 parse      *)
(* raises socket.error, validate returns.                                  *)
(***************************************************************************)
BothFamilies(v) == InList("ipv4", v._type) /\ InList("ipv6", v._type)
\* the last call was validate on an IPAddress with both families and a str
\* for which the two parses end as p4 and p6
ParsedBoth(p4, p6) ==
    /\ Validated("ipaddress", "str")
    /\ BothFamilies(before.validator)
    /\ inet_pton("AF_INET", before.value.s) = p4
    /\ inet_pton("AF_INET6", before.value.s) = p6

C11_FirstFailurePreserved ==
    /\ ParsedBoth("OSError", "OSError") =>
        /\ result.st = "raise"
        /\ result.err.kind = "ValidationError"
        /\ result.err.exception = "OSError(AF_INET)"
    /\ ParsedBoth("ok", "OSError") => (result.st = "return" /\ result.err = NoError)

(***************************************************************************)
(* C11, amended.  When inet_pton raises socket.error for the value under   *)
(* both families, the ValidationError raised carries the error of the IPv6 *)
(* parse, the last one, whatever the order of the families in the list     *)
(* given at construction; when the IPv4 parse succeeds and the IPv6 parse  *)
(* raises socket.error, validate returns and no error is raised; when the  *)
(* IPv4 parse raises an exception that is not socket.error, validate ends  *)
(* with that exception and no ValidationError is raised.                   *)
(***************************************************************************)
C11_LastFailureRetained ==
    /\ ParsedBoth("OSError", "OSError") =>
        /\ result.st = "raise"
        /\ result.err =
            ValidationError(key, before.value, before.validator, "None",
                            "OSError(AF_INET6)")
    /\ ParsedBoth("ok", "OSError") =>
        (result.st = "return" /\ result.out = PyNone /\ result.err = NoError)
    /\ ParsedBoth("ValueError", "ValueError") =>
        (result.st = "raise" /\ result.err.kind = "ValueError")

\* both parses of "999.1.1.1" failed and the error raised carries the second
C11_Witness ==
    /\ ParsedBoth("OSError", "OSError")
    /\ before.value.s = "999.1.1.1"
    /\ before.validator._type = <<"ipv4", "ipv6">>
    /\ result.st = "raise"
    /\ result.err.exception = "OSError(AF_INET6)"

(***************************************************************************)
(* C12.  Structural validation is not rolled back.  When List.validate     *)
(* raises at element i, or Dict.validate at its j-th configured field (an  *)
(* absent key included), the caller's container has, for every earlier     *)
(* element or field, the replacement its chain returned when it returned   *)
(* one, while the failing element and all later ones are as the operator   *)
(* K says.  As claimed, K is Original: they have the values they had.      *)
(***************************************************************************)
\* what the chain c, run alone, does to the element x
Alone(c, x) == validate_item(c, "", x)
\* the element x after its chain c returned
Stored(c, x) == IF Alone(c, x).out # PyNone THEN Alone(c, x).out ELSE Alone(c, x).val
\* the element x after its chain c raised: the value it had
Original(c, x) == x
\* the element x after its chain c raised: the object it was, which for a
\* container is the container as the failed chain left it
Kept(c, x) == IF IsScalar(x) THEN x ELSE Alone(c, x).val
\* the position in the dict v of the j-th configured field of d
FieldAt(d, v, j) == KeyIndex(v, d.fields.keys[j])

NoRollback(K(_, _)) ==
    /\ (Validated("list", "list") /\ result.st = "raise") =>
        LET c == before.validator.validator
            items == before.value.items
        IN  \E i \in 1..Len(items) :
                /\ ~Accepts(c, items[i])
                /\ \A k \in 1..(i - 1) : Accepts(c, items[k])
                /\ Len(value.items) = Len(items)
                /\ \A k \in 1..(i - 1) : value.items[k] = Stored(c, items[k])
                /\ value.items[i] = K(c, items[i])
                /\ \A k \in (i + 1)..Len(items) : value.items[k] = items[k]
    /\ (Validated("dict", "dict") /\ result.st = "raise") =>
        LET d == before.validator
            v == before.value
        IN  \E j \in BadFields(d, v) :
                /\ \A q \in BadFields(d, v) : j <= q
                /\ value.keys = v.keys
                /\ Len(value.items) = Len(v.items)
                /\ \A q \in 1..(j - 1) :
                        value.items[FieldAt(d, v, q)] =
                            Stored(d.fields.vals[q], v.items[FieldAt(d, v, q)])
                /\ ~MissingField(d, v, j) =>
                        value.items[FieldAt(d, v, j)] =
                            K(d.fields.vals[j], v.items[FieldAt(d, v, j)])
                /\ \A q \in (j + 1)..Len(d.fields.keys) :
                        ~MissingField(d, v, q) =>
                            value.items[FieldAt(d, v, q)] = v.items[FieldAt(d, v, q)]

C12_FailingElementHasOriginalValue == NoRollback(Original)

(***************************************************************************)
(* C12, amended.  The same, with K as Kept: the failing element is the     *)
(* object it was.  A str is the str it was; a failing element that is      *)
(* itself a list or a dict is that container as its own failed validation  *)
(* left it, with the replacements made in it before the failure.           *)
(***************************************************************************)
C12_NoRollbackOnFailure == NoRollback(Kept)

\* List.validate raised in the second of two inner lists, at its second
\* element: the first inner list and the first element of the second have
\* their replacements
C12_Witness ==
    /\ Validated("list", "list")
    /\ result.st = "raise"
    /\ result.err.key = "key[1][1]"
    /\ Len(before.value.items) = 2
    /\ value.items[1] # before.value.items[1]
    /\ value.items[1] = Stored(before.validator.validator, before.value.items[1])
    /\ value.items[2] # before.value.items[2]
    /\ value.items[2].items[2] = before.value.items[2].items[2]

====
